---- MODULE Spec2Model ----
(***************************************************************************)
(* Model of the two Open WebUI tools of this repository:                   *)
(*   - openfirecrawler.py : scrape_website, crawl_website, the EventEmitter *)
(*     and the HTML transforms clean_links / clean_images;                  *)
(*   - transcript_fetcher.py : fetch_youtube_transcript and its helpers.    *)
(*                                                                          *)
(* An HTML string is a sequence of lexical tokens (start tag, end tag,      *)
(* character run); a parsed document (a BeautifulSoup tree) is the same     *)
(* sequence in document order in which every element carries an identity n  *)
(* and every start tag has its end tag.  Attribute values and vocabulary    *)
(* words are sequences of one-character strings so that lower() and the     *)
(* substring test `w in x` are computed, not assumed.                       *)
(***************************************************************************)
EXTENDS Integers, Sequences, FiniteSets, TLC

\* ------------------------------------------------------------------ bounds
\* Largest number of nodes (elements and character runs) of an input document
\* of the clean_links specification.
MaxNodes == 3

\* Largest number of documents a crawl or scrape response carries.
MaxDocs == 2

\* The count of non-terminal statuses a crawl has seen stops growing here (the
\* poll loop itself is not bounded).
MaxPolls == 2

\* Largest number of atoms of a watch page, and of <text> elements of a
\* caption track.
MaxBody == 5
MaxTexts == 2

\* ------------------------------------------------------------- HTML tokens
Tok(k, n, tag, cls, id, s) ==
    [k |-> k, n |-> n, tag |-> tag, cls |-> cls, id |-> id, s |-> s]

OpenTok(n, tag, cls, id) == Tok("open", n, tag, cls, id, <<>>)
CloseTok(n, tag) == Tok("close", n, tag, <<>>, <<>>, <<>>)
TextTok(s) == Tok("text", 0, "#text", <<>>, <<>>, s)

\* Elements html.parser closes as soon as they are opened.
VoidTags == {"img"}

\* ---------------------------------------------------------------- strings
\* str.lower() on the letters the model's attribute values use.
Lower(c) ==
    CASE c = "C" -> "c"
      [] c = "R" -> "r"
      [] OTHER -> c

LowerStr(x) == [i \in 1..Len(x) |-> Lower(x[i])]

\* `w in x` of two Python strings.
Contains(x, w) ==
    \E i \in 1..(Len(x) - Len(w) + 1) : SubSeq(x, i, i + Len(w) - 1) = w

RECURSIVE JoinWith(_, _)
\* sep.join(parts)
JoinWith(parts, sep) ==
    IF parts = <<>> THEN <<>>
    ELSE IF Len(parts) = 1 THEN parts[1]
    ELSE parts[1] \o sep \o JoinWith(Tail(parts), sep)

RECURSIVE Flatten(_)
\* "".join(parts)
Flatten(parts) == IF parts = <<>> THEN <<>> ELSE parts[1] \o Flatten(Tail(parts))

\* str.strip() of a character run: leading and trailing blanks dropped.
RECURSIVE LStrip(_)
LStrip(s) == IF s # <<>> /\ s[1] = " " THEN LStrip(Tail(s)) ELSE s

RECURSIVE RStrip(_)
RStrip(s) ==
    IF s # <<>> /\ s[Len(s)] = " " THEN RStrip(SubSeq(s, 1, Len(s) - 1)) ELSE s

Strip(s) == RStrip(LStrip(s))

\* ------------------------------------------------- serialising and parsing
\* The entity substitution of the output formatter: markup characters of a
\* character run are written as entities.
EscapeAtom(c) == IF c = "<a>" THEN "&lt;a&gt;" ELSE c

Escape(s) == [i \in 1..Len(s) |-> EscapeAtom(s[i])]

\* html.parser's convert_charrefs: entities of a character run are decoded.
UnescapeAtom(c) == IF c = "&lt;a&gt;" THEN "<a>" ELSE c

RECURSIVE SerializeFrom(_, _, _)
\* str(soup): start and end tags in document order, adjacent character runs
\* written one after the other (so they read back as one run), an empty run
\* writes nothing, a void element writes no end tag.
SerializeFrom(t, i, out) ==
    IF i > Len(t) THEN out
    ELSE LET x == t[i] IN
      CASE x.k = "open" ->
             SerializeFrom(t, i + 1, Append(out, OpenTok(0, x.tag, x.cls, x.id)))
        [] x.k = "close" ->
             IF x.tag \in VoidTags THEN SerializeFrom(t, i + 1, out)
             ELSE SerializeFrom(t, i + 1, Append(out, CloseTok(0, x.tag)))
        [] OTHER ->
             IF x.s = <<>> THEN SerializeFrom(t, i + 1, out)
             ELSE IF out # <<>> /\ out[Len(out)].k = "text"
             THEN SerializeFrom(t, i + 1,
                    [out EXCEPT ![Len(out)].s = @ \o Escape(x.s)])
             ELSE SerializeFrom(t, i + 1, Append(out, TextTok(Escape(x.s))))

Serialize(t) == SerializeFrom(t, 1, <<>>)

RECURSIVE LexRun(_, _, _, _)
\* The tokenizer on one character run: a raw `<a>` in it is a start tag, every
\* other atom is data (entities decoded).
LexRun(s, j, cur, out) ==
    IF j > Len(s)
    THEN IF cur = <<>> THEN out ELSE Append(out, TextTok(cur))
    ELSE IF s[j] = "<a>"
    THEN LexRun(s, j + 1, <<>>,
           Append(IF cur = <<>> THEN out ELSE Append(out, TextTok(cur)),
                  OpenTok(0, "a", <<>>, <<>>)))
    ELSE LexRun(s, j + 1, Append(cur, UnescapeAtom(s[j])), out)

RECURSIVE Lex(_)
Lex(html) ==
    IF html = <<>> THEN <<>>
    ELSE IF html[1].k = "text" THEN LexRun(html[1].s, 1, <<>>, <<>>) \o Lex(Tail(html))
    ELSE <<html[1]>> \o Lex(Tail(html))

\* The open elements are a stack of <<n, tag>>, innermost last.
HasOpen(stack, tag) == \E i \in 1..Len(stack) : stack[i][2] = tag

RECURSIVE CloseAll(_)
\* End tags for every open element, innermost first.
CloseAll(stack) ==
    IF stack = <<>> THEN <<>>
    ELSE <<CloseTok(stack[Len(stack)][1], stack[Len(stack)][2])>>
         \o CloseAll(SubSeq(stack, 1, Len(stack) - 1))

RECURSIVE PopTo(_, _)
\* _popToTag: the stack left after closing up to and including the innermost
\* open element named tag.
PopTo(stack, tag) ==
    IF stack[Len(stack)][2] = tag THEN SubSeq(stack, 1, Len(stack) - 1)
    ELSE PopTo(SubSeq(stack, 1, Len(stack) - 1), tag)

RECURSIVE ParseFrom(_, _, _, _, _)
\* The tree builder: every start tag opens an element with a fresh identity;
\* an end tag closes up to the innermost open element of that name and is
\* dropped when there is none; what is still open at the end is closed.
ParseFrom(lx, i, stack, out, next) ==
    IF i > Len(lx) THEN out \o CloseAll(stack)
    ELSE LET x == lx[i] IN
      CASE x.k = "open" ->
             IF x.tag \in VoidTags
             THEN ParseFrom(lx, i + 1, stack,
                    out \o <<OpenTok(next, x.tag, x.cls, x.id), CloseTok(next, x.tag)>>,
                    next + 1)
             ELSE ParseFrom(lx, i + 1, Append(stack, <<next, x.tag>>),
                    Append(out, OpenTok(next, x.tag, x.cls, x.id)), next + 1)
        [] x.k = "close" ->
             IF HasOpen(stack, x.tag)
             THEN LET rest == PopTo(stack, x.tag) IN
                  ParseFrom(lx, i + 1, rest,
                    out \o CloseAll(SubSeq(stack, Len(rest) + 1, Len(stack))), next)
             ELSE ParseFrom(lx, i + 1, stack, out, next)
        [] OTHER -> ParseFrom(lx, i + 1, stack, Append(out, x), next)

\* BeautifulSoup(text, "html.parser")
Parse(html) == ParseFrom(Lex(html), 1, <<>>, <<>>, 1)

\* ------------------------------------------------------- tree operations
Attached(t, n) == \E i \in 1..Len(t) : t[i].k = "open" /\ t[i].n = n

PosOf(t, n) == CHOOSE i \in 1..Len(t) : t[i].k = "open" /\ t[i].n = n

EndOf(t, n) == CHOOSE j \in 1..Len(t) : t[j].k = "close" /\ t[j].n = n

\* The character runs below element n, in document order.
Strings(t, n) ==
    LET inner == SubSeq(t, PosOf(t, n) + 1, EndOf(t, n) - 1)
        runs == SelectSeq(inner, LAMBDA x : x.k = "text")
    IN [i \in 1..Len(runs) |-> runs[i].s]

\* Tag.get_text()
GetText(t, n) == Flatten(Strings(t, n))

\* Tag.get_text(strip=True): every run stripped, the empty ones skipped.
GetTextStripped(t, n) ==
    LET runs == Strings(t, n)
        stripped == [i \in 1..Len(runs) |-> Strip(runs[i])]
    IN Flatten(SelectSeq(stripped, LAMBDA s : s # <<>>))

\* Tag.decompose(): the element and everything below it leave the tree; on an
\* element that already left it (inside one decomposed before) nothing changes.
Decompose(t, n) ==
    IF Attached(t, n)
    THEN SubSeq(t, 1, PosOf(t, n) - 1) \o SubSeq(t, EndOf(t, n) + 1, Len(t))
    ELSE t

RECURSIVE DecomposeAll(_, _)
DecomposeAll(t, found) ==
    IF found = <<>> THEN t ELSE DecomposeAll(Decompose(t, found[1]), Tail(found))

\* link.replace_with(link.get_text()): the element gives way to one character
\* run holding its text.  An anchor inside an anchor replaced before it sits in
\* a detached subtree, and replacing it there leaves the document as it is.
ReplaceWithText(t, n) ==
    IF Attached(t, n)
    THEN SubSeq(t, 1, PosOf(t, n) - 1) \o <<TextTok(GetText(t, n))>>
         \o SubSeq(t, EndOf(t, n) + 1, Len(t))
    ELSE t

RECURSIVE ReplaceAll(_, _)
ReplaceAll(t, found) ==
    IF found = <<>> THEN t ELSE ReplaceAll(ReplaceWithText(t, found[1]), Tail(found))

\* The tags of a document.
Elements(t) == { t[j] : j \in { k \in 1..Len(t) : t[k].k = "open" } }

\* soup.find_all(...): the identities of the elements among `matching`, in
\* document order.
FindAll(t, matching) ==
    LET hits == SelectSeq(t, LAMBDA x : x.k = "open" /\ x \in matching)
    IN [j \in 1..Len(hits) |-> hits[j].n]

\* ------------------------------------------------------------ clean_links
Chars_citation == <<"c", "i", "t", "a", "t", "i", "o", "n">>
Chars_reference == <<"r", "e", "f", "e", "r", "e", "n", "c", "e">>
Chars_cite == <<"c", "i", "t", "e">>
Chars_reflist == <<"r", "e", "f", "l", "i", "s", "t">>
Chars_references == <<"r", "e", "f", "e", "r", "e", "n", "c", "e", "s">>
Chars_ref == <<"r", "e", "f">>

citation_classes ==
    <<Chars_citation, Chars_reference, Chars_cite, Chars_reflist, Chars_references>>

citation_elements == {"cite", "sup", "span"}

\* class_=lambda x: x and class_name in x.lower().  The class attribute is a
\* list of values: the function is tried on each value and then on the values
\* joined by a blank; an element with no class attribute never matches.
ClassMatches(x, class_name) ==
    \/ \E i \in 1..Len(x.cls) : Contains(LowerStr(x.cls[i]), class_name)
    \/ Contains(LowerStr(JoinWith(x.cls, <<" ">>)), class_name)

\* id=lambda x: x and ('cite' in x.lower() or 'ref' in x.lower())
IdMatches(x) ==
    \/ Contains(LowerStr(x.id), Chars_cite)
    \/ Contains(LowerStr(x.id), Chars_ref)

RECURSIVE RemoveClasses(_, _)
\* for class_name in citation_classes: for element in find_all(...): decompose
RemoveClasses(t, names) ==
    IF names = <<>> THEN t
    ELSE RemoveClasses(
           DecomposeAll(t, FindAll(t, { x \in Elements(t) : ClassMatches(x, names[1]) })),
           Tail(names))

\* for element in soup.find_all(citation_elements): element.decompose()
RemoveCitationElements(t) ==
    DecomposeAll(t, FindAll(t, { x \in Elements(t) : x.tag \in citation_elements }))

\* A variant of UnwrapLinks that drops each link with its text.
UnwrapLinks_Decompose(t) == DecomposeAll(t, FindAll(t, { x \in Elements(t) : x.tag = "a" }))

\* for link in soup.find_all('a'): link.replace_with(link.get_text())
UnwrapLinks(t) == ReplaceAll(t, FindAll(t, { x \in Elements(t) : x.tag = "a" }))

\* for element in soup.find_all(id=...): element.decompose()
RemoveIds(t) == DecomposeAll(t, FindAll(t, { x \in Elements(t) : IdMatches(x) }))

RECURSIVE RemoveEmptyFrom(_, _)
\* for li in found: if len(li.get_text(strip=True)) == 0: li.decompose()
\* (an item decomposed with an enclosing one has no text and no place left).
RemoveEmptyFrom(t, found) ==
    IF found = <<>> THEN t
    ELSE IF Attached(t, found[1]) /\ GetTextStripped(t, found[1]) = <<>>
    THEN RemoveEmptyFrom(Decompose(t, found[1]), Tail(found))
    ELSE RemoveEmptyFrom(t, Tail(found))

RemoveEmptyItems(t) == RemoveEmptyFrom(t, FindAll(t, { x \in Elements(t) : x.tag = "li" }))

clean_links(text) ==
    Serialize(RemoveEmptyItems(RemoveIds(UnwrapLinks(
      RemoveCitationElements(RemoveClasses(Parse(text), citation_classes))))))

\* ----------------------------------------------------------- clean_images
RemoveImages(t) == DecomposeAll(t, FindAll(t, { x \in Elements(t) : x.tag = "img" }))

RemoveFigures(t) == DecomposeAll(t, FindAll(t, { x \in Elements(t) : x.tag = "figure" }))

clean_images(text) == Serialize(RemoveFigures(RemoveImages(Parse(text))))

\* ------------------------------------------------- input documents (bounded)
Str_navReflist == <<<<"n", "a", "v">>, <<"R", "e", "f", "l", "i", "s", "t">>>>
Str_Ref1 == <<"R", "e", "f", "1">>
Str_main == <<"m", "a", "i", "n">>

Node(tag, cls, id, s) == [tag |-> tag, cls |-> cls, id |-> id, s |-> s]

\* The nodes input documents are built from: a plain block, anchors with and
\* without a matching id, the three ways of being a citation element, a list
\* item, and character runs (plain, blank, one that reads as markup).
NodeKinds ==
    << Node("div", <<>>, Str_main, <<>>),
       Node("a", <<>>, <<>>, <<>>),
       Node("a", <<>>, Str_Ref1, <<>>),
       Node("span", <<>>, <<>>, <<>>),
       Node("div", Str_navReflist, <<>>, <<>>),
       Node("div", <<>>, Str_Ref1, <<>>),
       Node("li", <<>>, <<>>, <<>>),
       Node("#text", <<>>, <<>>, <<"x">>),
       Node("#text", <<>>, <<>>, <<" ">>),
       Node("#text", <<>>, <<>>, <<"&lt;a&gt;">>) >>

\* An outline is the nodes of a document in document order, each with its
\* kind and its depth; a node may sit one level below the node before it only
\* if that node is an element.
IsOutline(kinds, depths) ==
    \A i \in 1..Len(kinds) :
        IF i = 1 THEN depths[i] = 0
        ELSE depths[i] <= depths[i - 1]
                          + (IF NodeKinds[kinds[i - 1]].tag = "#text" THEN 0 ELSE 1)

RECURSIVE EndTags(_, _)
\* End tags for the open tags of stack deeper than depth d, innermost first.
EndTags(stack, d) ==
    IF Len(stack) <= d THEN <<>>
    ELSE <<CloseTok(0, stack[Len(stack)])>> \o EndTags(SubSeq(stack, 1, Len(stack) - 1), d)

RECURSIVE WriteOutline(_, _, _, _, _)
\* The HTML text of an outline.
WriteOutline(kinds, depths, i, stack, out) ==
    IF i > Len(kinds) THEN out \o EndTags(stack, 0)
    ELSE LET k == NodeKinds[kinds[i]]
             d == depths[i]
             closed == out \o EndTags(stack, d)
             kept == SubSeq(stack, 1, d)
         IN IF k.tag = "#text"
            THEN IF closed # <<>> /\ closed[Len(closed)].k = "text"
                 THEN WriteOutline(kinds, depths, i + 1, kept,
                        [closed EXCEPT ![Len(closed)].s = @ \o k.s])
                 ELSE WriteOutline(kinds, depths, i + 1, kept, Append(closed, TextTok(k.s)))
            ELSE WriteOutline(kinds, depths, i + 1, Append(kept, k.tag),
                   Append(closed, OpenTok(0, k.tag, k.cls, k.id)))


\* ------------------------------------------------- documents of the remote
\* Bodies the remote service returns.  Html_page has an anchor, a citation
\* element, an image, a figure and plain text; Markdown_page carries inline
\* markup that the HTML transforms would change if they were applied to it.
Html_page ==
    << OpenTok(0, "div", <<>>, Str_main),
       OpenTok(0, "a", <<>>, <<>>), TextTok(<<"x">>), CloseTok(0, "a"),
       OpenTok(0, "span", <<>>, <<>>), TextTok(<<"x">>), CloseTok(0, "span"),
       OpenTok(0, "img", <<>>, <<>>),
       OpenTok(0, "figure", <<>>, <<>>), TextTok(<<"x">>), CloseTok(0, "figure"),
       TextTok(<<" ">>),
       CloseTok(0, "div") >>

Html_list ==
    << OpenTok(0, "li", <<>>, <<>>),
       OpenTok(0, "a", <<>>, Str_Ref1), TextTok(<<" ">>), CloseTok(0, "a"),
       CloseTok(0, "li"),
       TextTok(<<"&lt;a&gt;">>) >>

Markdown_page ==
    << TextTok(<<"x">>),
       OpenTok(0, "a", <<>>, <<>>), TextTok(<<"x">>), CloseTok(0, "a"),
       OpenTok(0, "img", <<>>, <<>>) >>

Doc(keys, h, md, metaKeys, title, sourceURL) ==
    [keys |-> keys, html |-> h, markdown |-> md,
     metaKeys |-> metaKeys, title |-> title, sourceURL |-> sourceURL]

\* The documents a response is made of: every combination of body formats with
\* complete metadata (each with its own title and url), and the three ways the
\* metadata can be incomplete.
DocKinds ==
    { Doc({"html", "markdown", "metadata"}, Html_page, Markdown_page,
          {"title", "sourceURL"}, "t1", "u1"),
      Doc({"markdown", "metadata"}, <<>>, Markdown_page,
          {"title", "sourceURL"}, "t2", "u2"),
      Doc({"html", "metadata"}, Html_list, <<>>,
          {"title", "sourceURL"}, "t3", "u3"),
      Doc({"metadata"}, <<>>, <<>>, {"title", "sourceURL"}, "t4", "u4"),
      Doc({"html"}, Html_page, <<>>, {}, "", ""),
      Doc({"markdown", "metadata"}, <<>>, Markdown_page, {"sourceURL"}, "", "u6"),
      Doc({"metadata"}, <<>>, <<>>, {"title"}, "t7", "") }

DocLists == UNION { [1..m -> DocKinds] : m \in 0..MaxDocs }

\* What check_crawl_status can report; the loop treats every status but the
\* two of TerminalStatuses alike.
RemoteStatuses == {"pending", "scraping", "completed", "failed"}

\* Variants of TerminalStatuses that leave the loop on one status only.
TerminalStatuses_OnlyCompleted == {"completed"}

TerminalStatuses_OnlyFailed == {"failed"}

\* if status["status"] in ["completed", "failed"]: break
TerminalStatuses == {"completed", "failed"}

\* ------------------------------------------------------------ return values
NoReturn == [kind |-> "none", value |-> <<>>, exc |-> ""]

\* return json.dumps(results): a string holding the list
ReturnJson(list) == [kind |-> "json", value |-> list, exc |-> ""]

\* return []: the list itself
ReturnList(list) == [kind |-> "list", value |-> list, exc |-> ""]

\* return "...": a plain string, as its parts
ReturnStr(parts) == [kind |-> "str", value |-> parts, exc |-> ""]

\* An exception leaving the call.
Raise(exc) == [kind |-> "fault", value |-> <<>>, exc |-> exc]

\* ------------------------------------------------------------------ state
VARIABLES
    html,           \* clean_links: the text handed in
    soup,           \* clean_links: the parsed document being edited
    removed,        \* clean_links: identities of the elements decompose() took out
    out,            \* clean_links: the text returned
    cpc,            \* clean_links: position in the function
    tool,           \* which tool this call runs
    valves,         \* Tools.valves: SHOW_LOGS and CLEAN_CONTENT
    event_emitter,  \* __event_emitter__: "none", "sync" or "async"
    pc,             \* position in the tool
    remote,         \* the crawl job's status at the remote service
    status,         \* the last answer of check_crawl_status
    docs,           \* the documents being processed
    i,              \* 1-based index of the next document
    results,        \* the Result Records built so far
    events,         \* the events delivered to the sink, in order
    ret,            \* what the call returned or raised
    polls,          \* non-terminal statuses seen (stops at MaxPolls)
    submits,        \* calls of async_crawl_url
    terminalSeen,   \* a status check has returned completed or failed
    late,           \* a status check or sleep happened after that
    body,           \* fetch_youtube_transcript: the watch page
    caption_url,    \* fetch_youtube_transcript: the caption track url
    xml             \* fetch_youtube_transcript: the caption track text

cleanVars == <<html, soup, removed, out, cpc>>

callVars == <<tool, valves, event_emitter, pc, events, ret>>

crawlVars == <<remote, status, docs, i, results, polls, submits, terminalSeen, late>>

transcriptVars == <<body, caption_url, xml>>

vars == <<cleanVars, callVars, crawlVars, transcriptVars>>

\* The values of the variables a specification does not use.
CleanIdle ==
    /\ html = <<>>
    /\ soup = <<>>
    /\ removed = {}
    /\ out = <<>>
    /\ cpc = "idle"

CrawlIdle ==
    /\ remote = "pending"
    /\ status = [status |-> "none", data |-> <<>>]
    /\ docs = <<>>
    /\ i = 1
    /\ results = <<>>
    /\ polls = 0
    /\ submits = 0
    /\ terminalSeen = FALSE
    /\ late = FALSE

TranscriptIdle ==
    /\ body = <<>>
    /\ caption_url = <<>>
    /\ xml = [wellformed |-> TRUE, texts |-> <<>>]

CallIdle ==
    /\ tool = "clean_links"
    /\ valves = [SHOW_LOGS |-> TRUE, CLEAN_CONTENT |-> TRUE]
    /\ event_emitter = "none"
    /\ pc = "idle"
    /\ events = <<>>
    /\ ret = NoReturn

\* ------------------------------------------- clean_links, one pass at a time
\* The elements of t that are no longer in u.
Gone(t, u) == { t[j].n : j \in { k \in 1..Len(t) : t[k].k = "open" /\ ~Attached(u, t[k].n) } }

CleanInit ==
    /\ \E m \in 0..MaxNodes :
         \E kinds \in [1..m -> 1..Len(NodeKinds)], depths \in [1..m -> 0..(MaxNodes - 1)] :
             /\ IsOutline(kinds, depths)
             /\ html = WriteOutline(kinds, depths, 1, <<>>, <<>>)
    /\ soup = <<>>
    /\ removed = {}
    /\ out = <<>>
    /\ cpc = "parse"
    /\ CallIdle
    /\ CrawlIdle
    /\ TranscriptIdle

CleanOthers == UNCHANGED <<callVars, crawlVars, transcriptVars>>

CleanParse ==
    /\ cpc = "parse"
    /\ soup' = Parse(html)
    /\ cpc' = "classes"
    /\ UNCHANGED <<html, removed, out>>
    /\ CleanOthers

CleanClasses ==
    /\ cpc = "classes"
    /\ soup' = RemoveClasses(soup, citation_classes)
    /\ removed' = removed \cup Gone(soup, soup')
    /\ cpc' = "elements"
    /\ UNCHANGED <<html, out>>
    /\ CleanOthers

CleanElements ==
    /\ cpc = "elements"
    /\ soup' = RemoveCitationElements(soup)
    /\ removed' = removed \cup Gone(soup, soup')
    /\ cpc' = "links"
    /\ UNCHANGED <<html, out>>
    /\ CleanOthers

CleanLinks ==
    /\ cpc = "links"
    /\ soup' = UnwrapLinks(soup)
    /\ cpc' = "ids"
    /\ UNCHANGED <<html, removed, out>>
    /\ CleanOthers

CleanIds ==
    /\ cpc = "ids"
    /\ soup' = RemoveIds(soup)
    /\ removed' = removed \cup Gone(soup, soup')
    /\ cpc' = "items"
    /\ UNCHANGED <<html, out>>
    /\ CleanOthers

CleanItems ==
    /\ cpc = "items"
    /\ soup' = RemoveEmptyItems(soup)
    /\ removed' = removed \cup Gone(soup, soup')
    /\ cpc' = "serialize"
    /\ UNCHANGED <<html, out>>
    /\ CleanOthers

CleanSerialize ==
    /\ cpc = "serialize"
    /\ out' = Serialize(soup)
    /\ cpc' = "done"
    /\ UNCHANGED <<html, soup, removed>>
    /\ CleanOthers

CleanNext ==
    \/ CleanParse
    \/ CleanClasses
    \/ CleanElements
    \/ CleanLinks
    \/ CleanIds
    \/ CleanItems
    \/ CleanSerialize

SpecClean == CleanInit /\ [][CleanNext]_vars

\* ------------------------------------------------------------ EventEmitter
Desc(text, k, n) == [text |-> text, i |-> k, n |-> n]

StatusEvent(level, description, done) ==
    [type |-> "status", status |-> level, description |-> description, done |-> done]

\* EventEmitter.emit: with a sink, one status event is handed to it (awaited
\* when the sink is a coroutine function, called otherwise); without, nothing.
emit(ev, description, level, done) ==
    IF event_emitter # "none"
    THEN Append(ev, StatusEvent(level, description, done))
    ELSE ev

progress_update(ev, description) ==
    IF valves.SHOW_LOGS THEN emit(ev, description, "in_progress", FALSE) ELSE ev

error_update(ev, description) ==
    IF valves.SHOW_LOGS THEN emit(ev, description, "error", FALSE) ELSE ev

success_update(ev, description) ==
    IF valves.SHOW_LOGS THEN emit(ev, description, "success", TRUE) ELSE ev

\* Positional parameters of error_update besides self.
error_update_params == 1

\* emitter.error_update(*args): binding the arguments comes first, and a call
\* with more arguments than parameters raises TypeError before the body runs.
call_error_update(ev, args) ==
    IF Len(args) # error_update_params
    THEN [events |-> ev, exc |-> "TypeError"]
    ELSE [events |-> error_update(ev, args[1]), exc |-> ""]

\* ------------------------------------------------- building a Result Record
\* A variant of SelectContent that looks for markdown first.
SelectContent_PreferMarkdown(doc) ==
    IF "markdown" \in doc.keys THEN doc.markdown
    ELSE IF "html" \in doc.keys
    THEN IF valves.CLEAN_CONTENT THEN clean_images(clean_links(doc.html)) ELSE doc.html
    ELSE <<>>

\* content = ""; if "html" in doc: ... elif "markdown" in doc: ...
SelectContent(doc) ==
    IF "html" \in doc.keys
    THEN IF valves.CLEAN_CONTENT THEN clean_images(clean_links(doc.html)) ELSE doc.html
    ELSE IF "markdown" \in doc.keys THEN doc.markdown
    ELSE <<>>

\* A variant of HasMetadata for lookups that fall back to a default value.
HasMetadata_Defaulting(doc) == TRUE

\* doc["metadata"]["title"] and doc["metadata"]["sourceURL"] raise KeyError
\* unless the block and both fields are there.
HasMetadata(doc) ==
    /\ "metadata" \in doc.keys
    /\ "title" \in doc.metaKeys
    /\ "sourceURL" \in doc.metaKeys

ResultRecord(doc) ==
    [url |-> doc.sourceURL, title |-> doc.title, content |-> SelectContent(doc),
     errors |-> <<>>]

\* A variant of AddResult that puts the record in front.
AddResult_Prepend(list, record) == <<record>> \o list

\* results.append(record)
AddResult(list, record) == Append(list, record)

ToolInit ==
    /\ tool \in {"scrape_website", "crawl_website"}
    /\ valves \in [SHOW_LOGS : BOOLEAN, CLEAN_CONTENT : BOOLEAN]
    /\ event_emitter \in {"none", "sync", "async"}
    /\ pc = "start"
    /\ events = <<>>
    /\ ret = NoReturn
    /\ CrawlIdle
    /\ CleanIdle
    /\ TranscriptIdle

ToolOthers == UNCHANGED <<cleanVars, transcriptVars, tool, valves, event_emitter>>

\* ---------------------------------------------------------- scrape_website
scrape_start ==
    /\ tool = "scrape_website"
    /\ pc = "start"
    /\ events' = progress_update(
                   progress_update(events, Desc("Starting scraping of url", 0, 0)),
                   Desc("Starting scrape document load", 0, 0))
    /\ pc' = "scrape_url"
    /\ UNCHANGED <<ret, crawlVars>>
    /\ ToolOthers

\* firecrawl.scrape_url answers with one document or raises.
scrape_fetch ==
    /\ tool = "scrape_website"
    /\ pc = "scrape_url"
    /\ \/ /\ ret' = Raise("RequestException")
          /\ pc' = "done"
          /\ UNCHANGED <<events, docs>>
       \/ /\ \E doc \in DocKinds : docs' = <<doc>>
          /\ events' = progress_update(events, Desc("Scrape successful. Processing...", 0, 0))
          /\ pc' = "scrape_process"
          /\ UNCHANGED ret
    /\ UNCHANGED <<remote, status, i, results, polls, submits, terminalSeen, late>>
    /\ ToolOthers

scrape_process ==
    /\ tool = "scrape_website"
    /\ pc = "scrape_process"
    /\ IF HasMetadata(docs[1])
       THEN /\ results' = AddResult(results, ResultRecord(docs[1]))
            /\ events' = success_update(events, Desc("Successfully processed scrape", 0, 0))
            /\ ret' = ReturnJson(results')
       ELSE /\ ret' = Raise("KeyError")
            /\ UNCHANGED <<results, events>>
    /\ pc' = "done"
    /\ UNCHANGED <<remote, status, docs, i, polls, submits, terminalSeen, late>>
    /\ ToolOthers

\* ----------------------------------------------------------- crawl_website
crawl_start ==
    /\ tool = "crawl_website"
    /\ pc = "start"
    /\ events' = progress_update(
                   progress_update(events, Desc("Starting crawl of url", 0, 0)),
                   Desc("Starting crawl document load", 0, 0))
    /\ pc' = "submit"
    /\ UNCHANGED <<ret, crawlVars>>
    /\ ToolOthers

\* firecrawl.async_crawl_url answers with a job id or raises.
crawl_submit ==
    /\ tool = "crawl_website"
    /\ pc = "submit"
    /\ submits' = submits + 1
    /\ \/ /\ ret' = Raise("RequestException")
          /\ pc' = "done"
       \/ /\ pc' = "check"
          /\ UNCHANGED ret
    /\ UNCHANGED <<events, remote, status, docs, i, results, polls, terminalSeen, late>>
    /\ ToolOthers

\* One turn of `while True` up to the sleep: check_crawl_status answers with the
\* job's status (and its documents once completed) or raises.
crawl_check ==
    /\ tool = "crawl_website"
    /\ pc = "check"
    /\ late' = (late \/ terminalSeen)
    /\ \/ /\ ret' = Raise("RequestException")
          /\ pc' = "done"
          /\ UNCHANGED <<status, polls, terminalSeen>>
       \/ /\ \E data \in (IF remote = "completed" THEN DocLists ELSE {<<>>}) :
                status' = [status |-> remote, data |-> data]
          /\ terminalSeen' = (terminalSeen \/ remote \in {"completed", "failed"})
          /\ IF remote \in TerminalStatuses
             THEN /\ pc' = "finished"
                  /\ UNCHANGED polls
             ELSE /\ pc' = "sleep"
                  /\ polls' = (IF polls < MaxPolls THEN polls + 1 ELSE polls)
          /\ UNCHANGED ret
    /\ UNCHANGED <<events, remote, docs, i, results, submits>>
    /\ ToolOthers

\* await asyncio.sleep(2)
crawl_sleep ==
    /\ tool = "crawl_website"
    /\ pc = "sleep"
    /\ late' = (late \/ terminalSeen)
    /\ pc' = "check"
    /\ UNCHANGED <<events, ret, remote, status, docs, i, results, polls, submits, terminalSeen>>
    /\ ToolOthers

\* if status["status"] == "failed": await emitter.error_update(error_msg, True); return []
crawl_failed ==
    /\ tool = "crawl_website"
    /\ pc = "finished"
    /\ status.status = "failed"
    /\ LET call == call_error_update(events, <<Desc("Crawl failed for URL: url", 0, 0), TRUE>>)
       IN /\ events' = call.events
          /\ ret' = (IF call.exc # "" THEN Raise(call.exc) ELSE ReturnList(<<>>))
    /\ pc' = "done"
    /\ UNCHANGED crawlVars
    /\ ToolOthers

\* docs = status["data"] and the progress notification that counts them
crawl_completed ==
    /\ tool = "crawl_website"
    /\ pc = "finished"
    /\ status.status # "failed"
    /\ docs' = status.data
    /\ events' = progress_update(events,
                   Desc("Crawl successful. Received n documents. Processing...", 0, Len(docs')))
    /\ i' = 1
    /\ pc' = "process"
    /\ UNCHANGED <<ret, remote, status, results, polls, submits, terminalSeen, late>>
    /\ ToolOthers

\* One turn of `for i, doc in enumerate(docs, 1)`.
crawl_process ==
    /\ tool = "crawl_website"
    /\ pc = "process"
    /\ i <= Len(docs)
    /\ events' = progress_update(events, Desc("Processing document i/n", i, Len(docs)))
    /\ IF HasMetadata(docs[i])
       THEN /\ results' = AddResult(results, ResultRecord(docs[i]))
            /\ i' = i + 1
            /\ UNCHANGED <<pc, ret>>
       ELSE /\ ret' = Raise("KeyError")
            /\ pc' = "done"
            /\ UNCHANGED <<results, i>>
    /\ UNCHANGED <<remote, status, docs, polls, submits, terminalSeen, late>>
    /\ ToolOthers

\* After the loop: the success notification and return json.dumps(results).
crawl_return ==
    /\ tool = "crawl_website"
    /\ pc = "process"
    /\ i > Len(docs)
    /\ events' = success_update(events, Desc("Successfully processed n pages", 0, Len(results)))
    /\ ret' = ReturnJson(results)
    /\ pc' = "done"
    /\ UNCHANGED crawlVars
    /\ ToolOthers

\* The remote service moves the job on while the call polls it; a finished job
\* stays finished.
remote_advance ==
    /\ tool = "crawl_website"
    /\ pc \in {"check", "sleep"}
    /\ remote \notin {"completed", "failed"}
    /\ remote' \in (IF remote = "pending"
                    THEN {"scraping", "completed", "failed"}
                    ELSE {"completed", "failed"})
    /\ UNCHANGED <<pc, events, ret, status, docs, i, results, polls, submits, terminalSeen, late>>
    /\ ToolOthers

ToolStep ==
    \/ scrape_start
    \/ scrape_fetch
    \/ scrape_process
    \/ crawl_start
    \/ crawl_submit
    \/ crawl_check
    \/ crawl_sleep
    \/ crawl_failed
    \/ crawl_completed
    \/ crawl_process
    \/ crawl_return

Next == ToolStep \/ remote_advance

Spec == ToolInit /\ [][Next]_vars

\* The poll loop keeps running: the blocking status check returns or raises,
\* and the event loop resumes the call when its sleep is over.  The remote
\* service owes nothing.
FairSpec == ToolInit /\ [][Next]_vars /\ WF_vars(crawl_check) /\ WF_vars(crawl_sleep)

\* ------------------------------------------------- fetch_youtube_transcript
\* Length of a video id: ([a-zA-Z0-9_-]{11})
VideoIdLen == 11

\* A url is a sequence of atoms: "v=" and "youtu.be/" are the two markers of
\* the pattern, "c" is one character of the id alphabet, anything else is not.
IdChars(k) == [j \in 1..k |-> "c"]

VideoUrls ==
    { <<"https://www.youtube.com/watch?", "v=">> \o IdChars(VideoIdLen),
      <<"https://", "youtu.be/">> \o IdChars(VideoIdLen) \o <<"?", "t=", "c">>,
      <<"https://www.youtube.com/watch?", "v=">> \o IdChars(VideoIdLen - 1),
      <<"https://example.com/", "c", "c">> }

\* re.search(r"(?:v=|youtu\.be/)([a-zA-Z0-9_-]{11})", url): the leftmost marker
\* followed by eleven id characters; the id, or "" when there is none.
MatchesAt(url, p) ==
    /\ url[p] \in {"v=", "youtu.be/"}
    /\ p + VideoIdLen <= Len(url)
    /\ \A j \in 1..VideoIdLen : url[p + j] = "c"

extract_video_id(url) ==
    IF \E p \in 1..Len(url) : MatchesAt(url, p)
    THEN LET p == CHOOSE q \in 1..Len(url) :
                    MatchesAt(url, q) /\ \A r \in 1..(q - 1) : ~MatchesAt(url, r)
         IN SubSeq(url, p + 1, p + VideoIdLen)
    ELSE <<>>

\* str.find(atom, start): the first position at or after start, 0 when none
\* (positions count from 1 here, so 0 stands for Python's -1).
Find(text, atom, start) ==
    IF \E p \in start..Len(text) : text[p] = atom
    THEN CHOOSE p \in start..Len(text) :
           text[p] = atom /\ \A q \in start..(p - 1) : text[q] # atom
    ELSE 0

\* The atoms of a watch page: the two field names the code searches for (each
\* with its colon and opening quote), a closing bracket, a double quote, the
\* escape & and any other character.
BodyAtoms == {"captionTracks:", "baseUrl:", "]", "quote", "\\u0026", "c"}

Bodies == UNION { [1..m -> BodyAtoms] : m \in 0..MaxBody }

\* .replace("\\u0026", "&")
ReplaceAmpEscape(text) == [j \in 1..Len(text) |-> IF text[j] = "\\u0026" THEN "&" ELSE text[j]]

extract_caption_url(captions_data) ==
    LET url_start == Find(captions_data, "baseUrl:", 1) IN
    IF url_start = 0 THEN <<>>
    ELSE LET url_end == Find(captions_data, "quote", url_start + 1) IN
         IF url_end = 0 THEN <<>>
         ELSE ReplaceAmpEscape(SubSeq(captions_data, url_start + 1, url_end - 1))

\* A caption track as ElementTree reads it: well-formed or not, and the text of
\* each <text> element in order, None for an element with no text.
NoneText == [none |-> TRUE, s |-> <<>>]
SomeText(s) == [none |-> FALSE, s |-> s]

TextValues == { NoneText, SomeText(<<"It", "&#39;", "s">>), SomeText(<<"&amp;">>) }

XmlDocs ==
    { [wellformed |-> FALSE, texts |-> <<>>] }
    \cup { [wellformed |-> TRUE, texts |-> t] :
             t \in UNION { [1..m -> TextValues] : m \in 0..MaxTexts } }

\* .replace("&#39;", "'").replace("&amp;", "&")
ReplaceEntities(s) ==
    [j \in 1..Len(s) |-> IF s[j] = "&#39;" THEN "'" ELSE IF s[j] = "&amp;" THEN "&" ELSE s[j]]

\* Only ET.ParseError is caught; text.text.replace on None raises
\* AttributeError out of the function.
extract_transcript_from_xml(xml_content) ==
    IF ~xml_content.wellformed THEN [exc |-> "", value |-> <<>>]
    ELSE IF \E j \in 1..Len(xml_content.texts) : xml_content.texts[j].none
    THEN [exc |-> "AttributeError", value |-> <<>>]
    ELSE [exc |-> "",
          value |-> JoinWith([j \in 1..Len(xml_content.texts) |->
                                ReplaceEntities(xml_content.texts[j].s)], <<" ">>)]

\* The events of the transcript tool have no status level.
TStatus(text, done) == StatusEvent("", Desc(text, 0, 0), done)

\* A variant of TMessage that sends the text as one more status event.
TMessage_AsStatus(text) == StatusEvent("", Desc(text, 0, 0), FALSE)

TMessage(text) ==
    [type |-> "message", status |-> "", description |-> Desc(text, 0, 0), done |-> FALSE]

RECURSIVE AwaitAll(_, _)
\* await __event_emitter__(e) for each e of list in turn: calling None raises
\* TypeError; a plain function is called (the event is delivered) and awaiting
\* what it returns raises TypeError; a coroutine function delivers the event.
AwaitAll(ev, list) ==
    IF list = <<>> THEN [events |-> ev, exc |-> ""]
    ELSE IF event_emitter = "none" THEN [events |-> ev, exc |-> "TypeError"]
    ELSE IF event_emitter = "sync"
    THEN [events |-> Append(ev, list[1]), exc |-> "TypeError"]
    ELSE AwaitAll(Append(ev, list[1]), Tail(list))

TranscriptInit ==
    /\ tool = "fetch_youtube_transcript"
    /\ valves = [SHOW_LOGS |-> TRUE, CLEAN_CONTENT |-> TRUE]
    /\ event_emitter \in {"none", "sync", "async"}
    /\ pc = "start"
    /\ events = <<>>
    /\ ret = NoReturn
    /\ CrawlIdle
    /\ CleanIdle
    /\ TranscriptIdle

TranscriptOthers == UNCHANGED <<cleanVars, crawlVars, tool, valves, event_emitter>>

\* Lines 45-54: the first notification and the video id.
transcript_video_id ==
    /\ pc = "start"
    /\ \E video_url \in VideoUrls :
         LET sent == AwaitAll(events, <<TStatus("Extracting video ID...", FALSE)>>) IN
         /\ events' = sent.events
         /\ IF sent.exc # ""
            THEN ret' = Raise(sent.exc) /\ pc' = "done"
            ELSE IF extract_video_id(video_url) = <<>>
            THEN ret' = ReturnStr(<<"Invalid YouTube URL">>) /\ pc' = "done"
            ELSE ret' = ret /\ pc' = "fetch_page"
    /\ UNCHANGED transcriptVars
    /\ TranscriptOthers

\* Lines 56-74: requests.get of the watch page answers or raises a
\* RequestException.
transcript_fetch_page ==
    /\ pc = "fetch_page"
    /\ LET sent == AwaitAll(events, <<TStatus("Fetching video page...", FALSE)>>) IN
       IF sent.exc # ""
       THEN /\ events' = sent.events
            /\ ret' = Raise(sent.exc)
            /\ pc' = "done"
            /\ UNCHANGED body
       ELSE \/ LET failed == AwaitAll(sent.events, <<TStatus("Failed to fetch video", TRUE)>>) IN
               /\ events' = failed.events
               /\ ret' = (IF failed.exc # "" THEN Raise(failed.exc)
                          ELSE ReturnStr(<<"Failed to fetch YouTube video page: ", "e">>))
               /\ pc' = "done"
               /\ UNCHANGED body
            \/ /\ events' = sent.events
               /\ body' \in Bodies
               /\ pc' = "captions"
               /\ UNCHANGED ret
    /\ UNCHANGED <<caption_url, xml>>
    /\ TranscriptOthers

\* Lines 76-106: the captionTracks fragment and the caption url in it.
transcript_captions ==
    /\ pc = "captions"
    /\ LET sent == AwaitAll(events, <<TStatus("Extracting captions data...", FALSE)>>)
           start_index == Find(body, "captionTracks:", 1)
           end_index == Find(body, "]", start_index)
           found == extract_caption_url(SubSeq(body, start_index, end_index))
           none == AwaitAll(sent.events, <<TStatus("No captions available", TRUE)>>)
           unsuitable == AwaitAll(sent.events, <<TStatus("No English captions found", TRUE)>>)
       IN IF sent.exc # ""
          THEN /\ events' = sent.events
               /\ ret' = Raise(sent.exc)
               /\ pc' = "done"
               /\ UNCHANGED caption_url
          ELSE IF start_index = 0
          THEN /\ events' = none.events
               /\ ret' = (IF none.exc # "" THEN Raise(none.exc)
                          ELSE ReturnStr(<<"No captions found for video">>))
               /\ pc' = "done"
               /\ UNCHANGED caption_url
          ELSE IF end_index = 0
          THEN /\ events' = sent.events
               /\ ret' = ReturnStr(<<"Invalid captions data">>)
               /\ pc' = "done"
               /\ UNCHANGED caption_url
          ELSE IF found = <<>>
          THEN /\ events' = unsuitable.events
               /\ ret' = (IF unsuitable.exc # "" THEN Raise(unsuitable.exc)
                          ELSE ReturnStr(<<"No suitable captions found">>))
               /\ pc' = "done"
               /\ UNCHANGED caption_url
          ELSE /\ events' = sent.events
               /\ caption_url' = found
               /\ pc' = "download"
               /\ UNCHANGED ret
    /\ UNCHANGED <<body, xml>>
    /\ TranscriptOthers

\* Lines 108-118: requests.get of the caption track answers or raises a
\* RequestException.
transcript_download ==
    /\ pc = "download"
    /\ LET sent == AwaitAll(events, <<TStatus("Downloading transcript...", FALSE)>>) IN
       /\ events' = sent.events
       /\ IF sent.exc # ""
          THEN ret' = Raise(sent.exc) /\ pc' = "done" /\ UNCHANGED xml
          ELSE \/ /\ ret' = ReturnStr(<<"Failed to fetch transcript: ", "e">>)
                  /\ pc' = "done"
                  /\ UNCHANGED xml
               \/ /\ xml' \in XmlDocs
                  /\ pc' = "parse"
                  /\ UNCHANGED ret
    /\ UNCHANGED <<body, caption_url>>
    /\ TranscriptOthers

\* Lines 120-143: the transcript, the two closing events and the return.
transcript_return ==
    /\ pc = "parse"
    /\ LET transcript == extract_transcript_from_xml(xml)
           sent == AwaitAll(events, << TStatus("Transcript fetched successfully!", TRUE),
                                       TMessage("Transcript has been fetched!") >>)
       IN IF transcript.exc # ""
          THEN ret' = Raise(transcript.exc) /\ UNCHANGED events
          ELSE IF transcript.value = <<>>
          THEN ret' = ReturnStr(<<"Transcript extraction failed">>) /\ UNCHANGED events
          ELSE /\ events' = sent.events
               /\ ret' = (IF sent.exc # "" THEN Raise(sent.exc)
                          ELSE ReturnStr(<<"Here's the transcript, : ">> \o transcript.value
                                         \o <<".">>))
    /\ pc' = "done"
    /\ UNCHANGED transcriptVars
    /\ TranscriptOthers

TranscriptNext ==
    \/ transcript_video_id
    \/ transcript_fetch_page
    \/ transcript_captions
    \/ transcript_download
    \/ transcript_return

SpecTranscript == TranscriptInit /\ [][TranscriptNext]_vars

\* ================================================================= claims
\* What the claims call things, written without the operators of the model
\* they are checked against.
NotificationsOn == valves.SHOW_LOGS /\ event_emitter # "none"

MetaComplete(doc) == "metadata" \in doc.keys /\ doc.metaKeys = {"title", "sourceURL"}

ExpectedContent(doc) ==
    IF "html" \in doc.keys
    THEN IF valves.CLEAN_CONTENT THEN clean_images(clean_links(doc.html)) ELSE doc.html
    ELSE IF "markdown" \in doc.keys THEN doc.markdown
    ELSE <<>>

ExpectedRecord(doc) ==
    [url |-> doc.sourceURL, title |-> doc.title, content |-> ExpectedContent(doc),
     errors |-> <<>>]

EventsWithStatus(level) == Cardinality({ j \in 1..Len(events) : events[j].status = level })

EventsWithText(text) ==
    Cardinality({ j \in 1..Len(events) : events[j].description.text = text })

InPollLoop == tool = "crawl_website" /\ pc \in {"check", "sleep"}

\* C1: in crawl_website, when a status check reports `failed`, the call ends
\* with an empty result list and exactly one error notification has reached
\* the sink (stated for a call whose notifications are switched on).
C1_FailedYieldsEmptyListAndOneError ==
    (tool = "crawl_website" /\ pc = "done" /\ status.status = "failed" /\ NotificationsOn)
    => /\ ret.kind \in {"list", "json"}
       /\ ret.value = <<>>
       /\ EventsWithStatus("error") = 1

\* C2: in crawl_website, after any number of non-terminal statuses followed by
\* `completed` with documents d1..dn that all have metadata title and
\* sourceURL, the call returns exactly n Result Records, the i-th carrying the
\* url and title of di, the content selected from di and no errors.
C2_CompletedYieldsOrderedRecords ==
    (/\ tool = "crawl_website"
     /\ pc = "done"
     /\ status.status = "completed"
     /\ \A j \in 1..Len(status.data) : MetaComplete(status.data[j]))
    => /\ ret.kind = "json"
       /\ Len(ret.value) = Len(status.data)
       /\ \A j \in 1..Len(status.data) : ret.value[j] = ExpectedRecord(status.data[j])

C2_Witness ==
    /\ tool = "crawl_website"
    /\ pc = "done"
    /\ polls = 2
    /\ status.status = "completed"
    /\ ret.kind = "json"
    /\ Len(ret.value) = 2
    /\ ret.value[1].url # ret.value[2].url

\* C3: in crawl_website the job is checked only while no terminal status has
\* been seen: after a check returned `completed` or `failed` there is no
\* further check and no further sleep, and the job was submitted exactly once
\* before the first check.
C3_PolledOnlyWhileNonTerminal ==
    tool = "crawl_website"
    => /\ ~late
       /\ terminalSeen => pc \notin {"check", "sleep"}
       /\ submits <= 1
       /\ (pc \in {"check", "sleep", "finished", "process"} \/ status.status # "none")
          => submits = 1

C3_Witness ==
    /\ tool = "crawl_website"
    /\ pc = "done"
    /\ terminalSeen
    /\ polls = 2
    /\ submits = 1

\* C4: on every path of scrape_website and crawl_website, with SHOW_LOGS false
\* or no sink supplied, no notification call delivers an event and none raises
\* (in these two tools TypeError can only come from a notification call).
C4_DisabledNotificationsAreSilent ==
    (tool \in {"scrape_website", "crawl_website"} /\ ~NotificationsOn)
    => /\ events = <<>>
       /\ ret.exc # "TypeError"

\* C5: the content of every record built by scrape_website or crawl_website is
\* the html body when the document has an `html` key (through clean_links and
\* then clean_images exactly when CLEAN_CONTENT is true), whether or not there
\* is markdown too; else the markdown body as it is; else the empty string.
C5_ContentSelection ==
    tool \in {"scrape_website", "crawl_website"}
    => /\ Len(results) <= Len(docs)
       /\ \A j \in 1..Len(results) :
            /\ results[j].content = ExpectedContent(docs[j])
            /\ ("html" \notin docs[j].keys /\ "markdown" \in docs[j].keys)
               => results[j].content = docs[j].markdown

C5_Witness ==
    /\ tool \in {"scrape_website", "crawl_website"}
    /\ pc = "done"
    /\ valves.CLEAN_CONTENT
    /\ \E j \in 1..Len(results) :
         /\ {"html", "markdown"} \subseteq docs[j].keys
         /\ results[j].content # docs[j].html
         /\ results[j].content # docs[j].markdown

\* C6: fetch_youtube_transcript never raises: whatever the url, the sink (none
\* included), the outcome of the two fetches and the caption XML, the call
\* ends by returning a string.
C6_NeverRaises ==
    (tool = "fetch_youtube_transcript" /\ pc = "done") => ret.kind = "str"

\* The text of a document, in order.
TextOf(t) ==
    LET runs == SelectSeq(t, LAMBDA x : x.k = "text")
    IN Flatten([j \in 1..Len(runs) |-> runs[j].s])

\* Position p of t lies inside an element of gone.
InsideAny(t, p, gone) ==
    \E j \in 1..(p - 1) : t[j].k = "open" /\ t[j].n \in gone /\ EndOf(t, t[j].n) > p

\* The text of t outside the elements of gone.
TextOutside(t, gone) ==
    LET idx == { p \in 1..Len(t) : t[p].k = "text" /\ ~InsideAny(t, p, gone) }
        kept == SelectSeq([p \in 1..Len(t) |-> IF p \in idx THEN t[p].s ELSE <<"#drop">>],
                          LAMBDA r : r # <<"#drop">>)
    IN Flatten(kept)

\* Two letters that differ at most in case.
SameLetter(a, b) ==
    \/ a = b
    \/ {a, b} = {"C", "c"}
    \/ {a, b} = {"R", "r"}

\* x contains the word w, whatever the case of its letters.
WordIn(x, w) ==
    \E p \in 1..(Len(x) - Len(w) + 1) :
        \A q \in 1..Len(w) : SameLetter(x[p + q - 1], w[q])

\* C7: the output of clean_links, parsed again, has no element whose class
\* contains a word of the citation vocabulary, no element whose id contains
\* cite or ref, no <a> element, and the text of the document is the text of the
\* input outside the removed elements, in order (so the text of every link
\* that was not in a removed element stands where the link stood).
C7_CleanLinksOutput ==
    cpc = "done"
    => LET again == Parse(out) IN
       /\ \A x \in Elements(again) :
            /\ \A c \in 1..Len(x.cls) : \A w \in 1..Len(citation_classes) :
                 ~WordIn(x.cls[c], citation_classes[w])
            /\ ~WordIn(x.id, Chars_cite)
            /\ ~WordIn(x.id, Chars_ref)
            /\ x.tag # "a"
       /\ TextOf(again) = TextOutside(Parse(html), removed)

C7_Witness ==
    /\ cpc = "done"
    /\ removed = {}
    /\ TextOf(Parse(out)) # <<>>
    /\ LET t == Parse(html) IN
       \E p \in 1..Len(t), q \in 1..Len(t) :
           /\ p < q
           /\ t[p].k = "open" /\ t[p].tag = "a"
           /\ t[q].k = "open" /\ t[q].tag = "a"
           /\ EndOf(t, t[p].n) > q

\* The first document of list without complete metadata.
FirstIncomplete(list) ==
    CHOOSE k \in 1..Len(list) :
        ~MetaComplete(list[k]) /\ \A j \in 1..(k - 1) : MetaComplete(list[j])

\* C8: in crawl_website on a completed job whose k-th document is the first to
\* lack the metadata block, its title or its sourceURL, the call ends in a
\* fault: no list is returned (the k-1 records built stay inside the call), no
\* success notification is sent, and no document after the k-th is processed
\* or notified.
C8_MalformedDocumentFails ==
    (/\ tool = "crawl_website"
     /\ status.status = "completed"
     /\ \E j \in 1..Len(status.data) : ~MetaComplete(status.data[j]))
    => LET k == FirstIncomplete(status.data) IN
       /\ ret.kind \notin {"json", "list"}
       /\ EventsWithStatus("success") = 0
       /\ i <= k
       /\ Len(results) < k
       /\ \A j \in 1..Len(events) : events[j].description.i <= k
       /\ pc = "done"
          => /\ ret = Raise("KeyError")
             /\ Len(results) = k - 1
             /\ NotificationsOn
                => EventsWithText("Processing document i/n") = k

C8_Witness ==
    /\ tool = "crawl_website"
    /\ pc = "done"
    /\ NotificationsOn
    /\ Len(status.data) = 2
    /\ MetaComplete(status.data[1])
    /\ ~MetaComplete(status.data[2])
    /\ Len(results) = 1
    /\ ret.exc = "KeyError"

\* C9: crawl_website leaves the poll loop only on a terminal status (or on a
\* status check that raises); once the remote job is completed or failed the
\* call does leave the loop; and a call that stays in the loop forever goes on
\* alternating status check and sleep.
C9_PollLoopExit ==
    /\ [][(InPollLoop /\ ~InPollLoop')
          => \/ pc' = "finished" /\ status'.status \in {"completed", "failed"}
             \/ pc' = "done" /\ ret'.exc = "RequestException"]_vars
    /\ (InPollLoop /\ remote \in {"completed", "failed"}) ~> ~InPollLoop
    /\ (<>[]InPollLoop) => ([]<>(pc = "check") /\ []<>(pc = "sleep"))

C9_Witness ==
    /\ tool = "crawl_website"
    /\ pc = "finished"
    /\ polls = 2
    /\ status.status \in {"completed", "failed"}

\* The four step notifications of fetch_youtube_transcript, in order.
StepTexts ==
    << "Extracting video ID...", "Fetching video page...",
       "Extracting captions data...", "Downloading transcript..." >>

IsStep(e, k) ==
    e.type = "status" /\ e.description.text = StepTexts[k] /\ ~e.done

IsSuccess(e) ==
    e.type = "status" /\ e.description.text = "Transcript fetched successfully!" /\ e.done

\* C10: with a working (coroutine) sink, the events of fetch_youtube_transcript
\* are a prefix of the four step events in order, then at most one status event
\* with done=true; the success event is delivered exactly when the call
\* returns the formatted transcript, with exactly one message event after it;
\* and no status event follows a status event with done=true.
C10_TranscriptEventOrder ==
    (tool = "fetch_youtube_transcript" /\ event_emitter = "async")
    => /\ \E k \in 0..Len(StepTexts) :
            /\ k <= Len(events)
            /\ \A j \in 1..k : IsStep(events[j], j)
            /\ LET rest == SubSeq(events, k + 1, Len(events)) IN
               \/ rest = <<>>
               \/ Len(rest) = 1 /\ rest[1].type = "status" /\ rest[1].done
               \/ Len(rest) = 2 /\ IsSuccess(rest[1]) /\ rest[2].type = "message"
       /\ (\E j \in 1..Len(events) : IsSuccess(events[j]))
          <=> (pc = "done" /\ ret.kind = "str" /\ ret.value[1] = "Here's the transcript, : ")
       /\ \A j \in 1..Len(events) :
            IsSuccess(events[j]) => (Len(events) = j + 1 /\ events[j + 1].type = "message")
       /\ \A j \in 1..Len(events) : \A l \in (j + 1)..Len(events) :
            (events[j].type = "status" /\ events[j].done) => events[l].type # "status"

C10_Witness ==
    /\ tool = "fetch_youtube_transcript"
    /\ event_emitter = "async"
    /\ pc = "done"
    /\ Len(events) = 6
    /\ IsSuccess(events[5])
    /\ ret.kind = "str"

====
